---- MODULE Spec2Model ----
(***************************************************************************)
(* Model of main.py: the chatbot backend.  Startup model selection         *)
(* (lines 24-57), the response cache and get_ai_response (lines 77-157),   *)
(* and the /chat endpoint (lines 165-168) as dispatched by the framework:  *)
(* chat_endpoint is a coroutine (async def) that calls the synchronous     *)
(* get_ai_response without awaiting anything, so the event loop runs one   *)
(* chat handler from its first to its last line before it starts another. *)
(*                                                                         *)
(* A Python str is modelled as a sequence of characters; a fixed reply     *)
(* string is a one-element sequence holding the whole literal.             *)
(***************************************************************************)
EXTENDS Integers, Sequences, FiniteSets, TLC

\* ---------------------------------------------------------------- bounds
\* capacity of response_cache (line 22 sets 100; scaled down for checking)
MAX_CACHE_SIZE == 2
\* number of chat requests that can be in flight at the same time
NumReq == 2
\* longest provider listing explored by the startup specification
MaxListed == 2

Reqs == 1..NumReq
\* number of conversion requests that can be in flight at the same time
NumConv == 2
ConvIds == 1..NumConv

\* ---------------------------------------------------------------- values
\* Python's None where a model name or handle is expected
None == "None"
\* a name that was never bound (the assignment was not reached)
Unbound == "<unbound>"

NO_MODEL_REPLY == <<"Server Error: No AI model available.">>
EMPTY_REPLY == <<"Samawenna, mata kiyanna deyak hithaganna ba.">>
ERROR_REPLY == <<"Samawenna, podi aulak. Internet connection eka balanna.">>

Whitespace == {" ", "\t"}

\* request bodies: the message field of ChatRequest
Messages ==
  { <<"a">>, <<" ", "A", "\t">> }
    \cup { [i \in 1..n |-> "b"] : n \in 1..MAX_CACHE_SIZE }

\* what active_model.generate_content can hand back: the call raises, the
\* response has no text, or it has a text (possibly empty or blank)
Texts == { <<>>, <<" ">>, <<" ", "x", " ">> }
Outcomes ==
  { [kind |-> "raise", text |-> <<>>], [kind |-> "absent", text |-> <<>>] }
    \cup { [kind |-> "text", text |-> t] : t \in Texts }

\* ------------------------------------------------------- string helpers
\* str.lower() on one character
LowerChar(c) ==
  CASE c = "A" -> "a"
    [] c = "B" -> "b"
    [] c = "C" -> "c"
    [] OTHER -> c

lower(s) == [i \in 1..Len(s) |-> LowerChar(s[i])]

RECURSIVE lstrip(_)
lstrip(s) ==
  IF s # <<>> /\ Head(s) \in Whitespace THEN lstrip(Tail(s)) ELSE s

RECURSIVE rstrip(_)
rstrip(s) ==
  IF s # <<>> /\ s[Len(s)] \in Whitespace
  THEN rstrip(SubSeq(s, 1, Len(s) - 1))
  ELSE s

\* str.strip()
strip(s) == rstrip(lstrip(s))

\* hashlib.md5(b).hexdigest(): a fixed-length digest, taken to be free of
\* collisions on the messages explored
md5_hexdigest(s) == <<"md5">> \o s

\* faulty variant: the key is derived without lowercasing
get_cache_key_nolower(message) == md5_hexdigest(strip(message))

get_cache_key(message) == md5_hexdigest(strip(lower(message)))

\* ------------------------------------------------------ model selection
Range(s) == {s[i] : i \in 1..Len(s)}

\* line 37
target_models ==
  <<"models/gemini-1.5-flash", "models/gemini-pro", "models/gemini-1.5-pro">>

\* names the provider may list besides the preferred ones
OtherModels == {"models/other-a", "models/other-b"}
ModelNames == Range(target_models) \cup OtherModels

\* one item of genai.list_models(): its name and whether 'generateContent'
\* is among its supported_generation_methods
Listed == [name : ModelNames, generate : BOOLEAN]

NoRepeat(l) == \A i, j \in 1..Len(l) : l[i].name = l[j].name => i = j

Listings ==
  UNION { {l \in [1..n -> Listed] : NoRepeat(l)} : n \in 0..MaxListed }

\* the listings the chat specification starts from
FewListings ==
  { <<>>,
    << [name |-> "models/other-a", generate |-> TRUE],
       [name |-> "models/gemini-pro", generate |-> TRUE] >> }

\* lines 31-34: the names of the generateContent-capable items, in order
RECURSIVE capable(_)
capable(l) ==
  IF l = <<>> THEN <<>>
  ELSE IF Head(l).generate THEN <<Head(l).name>> \o capable(Tail(l))
       ELSE capable(Tail(l))

\* lines 38-44: the loop over target_models, left at the first match
RECURSIVE first_target(_, _)
first_target(targets, available) ==
  IF targets = <<>> THEN None
  ELSE IF Head(targets) \in Range(available) THEN Head(targets)
       ELSE first_target(Tail(targets), available)

\* faulty variant: the fallback takes the last available model
select_model_last(available) ==
  LET t == first_target(target_models, available)
  IN  IF t = None /\ available # <<>> THEN available[Len(available)] ELSE t

\* lines 38-48: selected_model_name
select_model(available) ==
  LET t == first_target(target_models, available)
  IN  IF t = None /\ available # <<>> THEN available[1] ELSE t

\* where startup can raise: nowhere, in genai.configure (line 27), while
\* iterating genai.list_models() (line 32), in genai.GenerativeModel (52)
FailPoints == {"none", "configure", "list", "construct"}

\* ---------------------------------------------------------------- state
VARIABLES
  phase,                \* "import" while the module body runs, then "serving"
  available_models,     \* line 31
  selected_model_name,  \* line 38
  active_model,         \* line 24
  setup_error,          \* where the except clause of line 56 caught, if it did
  response_cache,       \* line 21: the dict, as its items in insertion order
  pc,                   \* per request: position of its handler
  message,              \* per request: request.message
  cache_key,            \* per request: local of get_ai_response
  reply,                \* per request: value get_ai_response returns
  result,               \* per request: the HTTP response of /chat
  invoked,              \* per request: calls of generate_content it made
  looked,               \* per request: whether it looked into the cache
  how,                  \* per request: the branch get_ai_response returned by
  began,                \* per request: cache, puts, watch when its handler began
  puts,                 \* keys stored since startup, until capacity+1 of them
  watch,                \* one earlier get_ai_response call, chosen freely
  conv,                 \* per conversion request: its upload, position, response
  files                 \* temp_uploads/ and temp_outputs/: path -> content

vars ==
  << phase, available_models, selected_model_name, active_model, setup_error,
     response_cache, pc, message, cache_key, reply, result, invoked, looked,
     how, began, puts, watch, conv, files >>

startup_vars ==
  << phase, available_models, selected_model_name, active_model, setup_error >>

NoStr == <<>>
NoResult == [status |-> 0, reply |-> NoStr]
NoWatch ==
  [norm |-> <<"-">>, key |-> NoStr, reply |-> NoStr, how |-> "none",
   live |-> FALSE, fresh |-> FALSE]
Overflow == << <<"overflow">> >>
NotBegun == [cache |-> <<>>, puts |-> <<>>, watch |-> NoWatch]

conv_vars == << conv, files >>

\* content of a file or of a response body
NoData == [fmt |-> "none", of |-> "-"]
Partial == [fmt |-> "partial", of |-> "-"]
NoUpload == [kind |-> "none", filename |-> <<>>, data |-> NoData]
NoConv ==
  [pc |-> "idle", upload |-> NoUpload, attempts |-> 0, status |-> 0,
   detail |-> "", raised |-> "none", path |-> <<>>, filename |-> <<>>, body |-> NoData]
NoFiles == [p \in {} |-> NoData]

Init ==
  /\ phase = "import"
  /\ available_models = <<Unbound>>
  /\ selected_model_name = Unbound
  /\ active_model = None
  /\ setup_error = "none"
  /\ response_cache = <<>>
  /\ pc = [r \in Reqs |-> "idle"]
  /\ message = [r \in Reqs |-> NoStr]
  /\ cache_key = [r \in Reqs |-> NoStr]
  /\ reply = [r \in Reqs |-> NoStr]
  /\ result = [r \in Reqs |-> NoResult]
  /\ invoked = [r \in Reqs |-> 0]
  /\ looked = [r \in Reqs |-> FALSE]
  /\ how = [r \in Reqs |-> "none"]
  /\ began = [r \in Reqs |-> NotBegun]
  /\ puts = <<>>
  /\ watch = NoWatch
  /\ conv = [c \in ConvIds |-> NoConv]
  /\ files = NoFiles

chat_vars ==
  << response_cache, pc, message, cache_key, reply, result, invoked, looked,
     how, began, puts, watch >>

\* ---------------------------------------------------------------- startup
\* faulty variant: the handle is bound before the constructor has returned
construct_failed_bound(name) == name

\* line 52 raising: the assignment to active_model does not happen
construct_failed(name) == None

\* lines 24-59, the module body: `listing` is what the provider lists,
\* `fail` where an exception is raised, `k` how many items list_models
\* yielded before it raised
ModuleBody(listing, fail, k) ==
  /\ phase = "import"
  /\ k \in 0..Len(listing)
  /\ fail = "list" \/ k = Len(listing)
  /\ LET avail == capable(listing)
         sel == select_model(avail)
     IN
       CASE fail = "configure" ->
              /\ UNCHANGED << available_models, selected_model_name,
                              active_model >>
         [] fail = "list" ->
              /\ available_models' = capable(SubSeq(listing, 1, k))
              /\ UNCHANGED << selected_model_name, active_model >>
         [] fail = "construct" ->
              /\ sel # None
              /\ available_models' = avail
              /\ selected_model_name' = sel
              /\ active_model' = construct_failed(sel)
         [] OTHER ->
              /\ available_models' = avail
              /\ selected_model_name' = sel
              /\ active_model' = sel
  /\ setup_error' = fail
  /\ phase' = "serving"
  /\ UNCHANGED chat_vars
  /\ UNCHANGED conv_vars

\* ------------------------------------------------------------ the cache
\* response_cache is a dict: its items in insertion order
Keys(cache) == {cache[i].k : i \in 1..Len(cache)}
KeySeq(cache) == [i \in 1..Len(cache) |-> cache[i].k]
Lookup(cache, key) == (CHOOSE i \in 1..Len(cache) : cache[i].k = key)

\* response_cache[key]
dict_get(cache, key) == cache[Lookup(cache, key)].v

\* response_cache[key] = value: a present key keeps its position
dict_set(cache, key, value) ==
  IF key \in Keys(cache)
  THEN [cache EXCEPT ![Lookup(cache, key)].v = value]
  ELSE Append(cache, [k |-> key, v |-> value])

\* faulty variant: the capacity test is off by one
at_capacity_gt(cache) == Len(cache) > MAX_CACHE_SIZE

\* line 145
at_capacity(cache) == Len(cache) >= MAX_CACHE_SIZE

\* faulty variant: the whole dict is cleared
pop_all(cache) == <<>>

\* faulty variant: the newest entry is removed
pop_newest(cache) == SubSeq(cache, 1, Len(cache) - 1)

\* line 147: response_cache.pop(next(iter(response_cache)))
pop_oldest(cache) == Tail(cache)

\* ------------------------------------------------------------- dispatch
InHandler == {"call", "size", "evict", "store", "leave", "raise", "done"}

\* faulty variant: handlers run on a pool of threads
thread_pool(r) == TRUE

\* chat_endpoint is a coroutine without an await: the event loop starts a
\* handler only when no other handler is between its first and last line
loop_free(r) == \A q \in Reqs \ {r} : pc[q] \notin InHandler

\* faulty variant: the cache is never consulted
is_hit_never(cache, key) == FALSE

\* line 88: cache_key in response_cache
is_hit(cache, key) == key \in Keys(cache)

\* faulty variant: a hit moves the entry to the newest position
cache_after_hit_lru(cache, key) ==
  LET i == Lookup(cache, key)
  IN  SubSeq(cache, 1, i - 1) \o SubSeq(cache, i + 1, Len(cache)) \o <<cache[i]>>

\* lines 88-90 only read the dict
cache_after_hit(cache, key) == cache

\* faulty variant: the test of line 83 is missing
no_model_skipped(model) == FALSE

\* line 83: not active_model
no_model(model) == model = None

\* faulty variants of the branches after the call
after_call_cache_empty(outcome) ==
  IF outcome.kind = "raise" THEN [next |-> "leave", how |-> "error", reply |-> ERROR_REPLY]
  ELSE IF outcome.kind = "text" /\ outcome.text # <<>>
       THEN [next |-> "size", how |-> "stored", reply |-> strip(outcome.text)]
       ELSE [next |-> "size", how |-> "empty", reply |-> EMPTY_REPLY]

after_call_cache_error(outcome) ==
  IF outcome.kind = "raise" THEN [next |-> "size", how |-> "error", reply |-> ERROR_REPLY]
  ELSE IF outcome.kind = "text" /\ outcome.text # <<>>
       THEN [next |-> "size", how |-> "stored", reply |-> strip(outcome.text)]
       ELSE [next |-> "leave", how |-> "empty", reply |-> EMPTY_REPLY]

after_call_propagate(outcome) ==
  IF outcome.kind = "raise" THEN [next |-> "raise", how |-> "error", reply |-> NoStr]
  ELSE IF outcome.kind = "text" /\ outcome.text # <<>>
       THEN [next |-> "size", how |-> "stored", reply |-> strip(outcome.text)]
       ELSE [next |-> "leave", how |-> "empty", reply |-> EMPTY_REPLY]

\* lines 141-157: what follows the return of generate_content
after_call(outcome) ==
  IF outcome.kind = "raise"
  THEN [next |-> "leave", how |-> "error", reply |-> ERROR_REPLY]
  ELSE IF outcome.kind = "text" /\ outcome.text # <<>>
       THEN [next |-> "size", how |-> "stored", reply |-> strip(outcome.text)]
       ELSE [next |-> "leave", how |-> "empty", reply |-> EMPTY_REPLY]

\* ---------------------------------------------------------------- /chat
\* a POST /chat arrives and waits for the event loop
Arrive(r, m) ==
  /\ phase = "serving"
  /\ pc[r] = "idle"
  /\ pc' = [pc EXCEPT ![r] = "queued"]
  /\ message' = [message EXCEPT ![r] = m]
  /\ UNCHANGED << startup_vars, response_cache, cache_key, reply, result,
                  invoked, looked, how, began, puts, watch >>
  /\ UNCHANGED conv_vars

\* lines 166-167 and 83-139: the handler starts; it returns at once in
\* degraded mode or on a cache hit, else it calls generate_content
Dispatch(r) ==
  /\ pc[r] = "queued"
  /\ loop_free(r)
  /\ began' = [began EXCEPT ![r] =
                 [cache |-> response_cache, puts |-> puts, watch |-> watch]]
  /\ IF no_model(active_model)
     THEN /\ reply' = [reply EXCEPT ![r] = NO_MODEL_REPLY]
          /\ how' = [how EXCEPT ![r] = "degraded"]
          /\ pc' = [pc EXCEPT ![r] = "leave"]
          /\ UNCHANGED << cache_key, looked, invoked, response_cache >>
     ELSE LET key == get_cache_key(message[r])
          IN  /\ cache_key' = [cache_key EXCEPT ![r] = key]
              /\ looked' = [looked EXCEPT ![r] = TRUE]
              /\ IF is_hit(response_cache, key)
                 THEN /\ reply' = [reply EXCEPT ![r] =
                                     dict_get(response_cache, key)]
                      /\ response_cache' = cache_after_hit(response_cache, key)
                      /\ how' = [how EXCEPT ![r] = "hit"]
                      /\ pc' = [pc EXCEPT ![r] = "leave"]
                      /\ UNCHANGED invoked
                 ELSE /\ invoked' = [invoked EXCEPT ![r] = @ + 1]
                      /\ pc' = [pc EXCEPT ![r] = "call"]
                      /\ UNCHANGED << reply, how, response_cache >>
  /\ UNCHANGED << startup_vars, message, result, puts, watch >>
  /\ UNCHANGED conv_vars

\* line 139 returns or raises, and lines 141-142 and 152-157 follow
CallEnds(r, outcome) ==
  /\ pc[r] = "call"
  /\ LET a == after_call(outcome)
     IN  /\ pc' = [pc EXCEPT ![r] = a.next]
         /\ reply' = [reply EXCEPT ![r] = a.reply]
         /\ how' = [how EXCEPT ![r] = a.how]
  /\ UNCHANGED << startup_vars, response_cache, message, cache_key, result,
                  invoked, looked, began, puts, watch >>
  /\ UNCHANGED conv_vars

\* line 145
CheckSize(r) ==
  /\ pc[r] = "size"
  /\ pc' = [pc EXCEPT ![r] =
              IF at_capacity(response_cache) THEN "evict" ELSE "store"]
  /\ UNCHANGED << startup_vars, response_cache, message, cache_key, reply,
                  result, invoked, looked, how, began, puts, watch >>
  /\ UNCHANGED conv_vars

\* line 147; on an empty dict next() raises StopIteration, which the
\* except clause of line 155 catches
Evict(r) ==
  /\ pc[r] = "evict"
  /\ IF response_cache = <<>>
     THEN /\ pc' = [pc EXCEPT ![r] = "leave"]
          /\ reply' = [reply EXCEPT ![r] = ERROR_REPLY]
          /\ how' = [how EXCEPT ![r] = "error"]
          /\ UNCHANGED << response_cache, watch >>
     ELSE /\ response_cache' = pop_oldest(response_cache)
          /\ watch' = IF watch.key \in Keys(response_cache)
                         /\ watch.key \notin Keys(pop_oldest(response_cache))
                      THEN [watch EXCEPT !.live = FALSE]
                      ELSE watch
          /\ pc' = [pc EXCEPT ![r] = "store"]
          /\ UNCHANGED << reply, how >>
  /\ UNCHANGED << startup_vars, message, cache_key, result, invoked, looked,
                  began, puts >>
  /\ UNCHANGED conv_vars

\* line 148
Store(r) ==
  /\ pc[r] = "store"
  /\ response_cache' = dict_set(response_cache, cache_key[r], reply[r])
  /\ puts' = IF puts # Overflow /\ Len(puts) <= MAX_CACHE_SIZE
             THEN Append(puts, cache_key[r])
             ELSE Overflow
  /\ pc' = [pc EXCEPT ![r] = "leave"]
  /\ UNCHANGED << startup_vars, message, cache_key, reply, result, invoked,
                  looked, how, began, watch >>
  /\ UNCHANGED conv_vars

\* get_ai_response returns and line 168 builds the response; an exception
\* that leaves the handler is answered by the framework with status 500.
\* The call may be picked as the watched one; the watched call stays fresh
\* until the next call returns.
Leave(r, pick) ==
  /\ pc[r] \in {"leave", "raise"}
  /\ result' = [result EXCEPT ![r] =
                  IF pc[r] = "raise"
                  THEN [status |-> 500, reply |-> NoStr]
                  ELSE [status |-> 200, reply |-> reply[r]]]
  /\ pc' = [pc EXCEPT ![r] = "done"]
  /\ IF pick
     THEN /\ watch = NoWatch
          /\ how[r] # "degraded"
          /\ watch' = [norm |-> strip(lower(message[r])),
                       key |-> cache_key[r],
                       reply |-> reply[r],
                       how |-> how[r],
                       live |-> how[r] \in {"hit", "stored"},
                       fresh |-> TRUE]
     ELSE watch' = [watch EXCEPT !.fresh = FALSE]
  /\ UNCHANGED << startup_vars, response_cache, message, cache_key, reply,
                  invoked, looked, how, began, puts >>
  /\ UNCHANGED conv_vars

\* the response is handed to the framework, and the event loop is free to
\* start the next handler
Finish(r) ==
  /\ pc[r] = "done"
  /\ pc' = [pc EXCEPT ![r] = "idle"]
  /\ message' = [message EXCEPT ![r] = NoStr]
  /\ cache_key' = [cache_key EXCEPT ![r] = NoStr]
  /\ reply' = [reply EXCEPT ![r] = NoStr]
  /\ result' = [result EXCEPT ![r] = NoResult]
  /\ invoked' = [invoked EXCEPT ![r] = 0]
  /\ looked' = [looked EXCEPT ![r] = FALSE]
  /\ how' = [how EXCEPT ![r] = "none"]
  /\ began' = [began EXCEPT ![r] = NotBegun]
  /\ UNCHANGED << startup_vars, response_cache, puts, watch >>
  /\ UNCHANGED conv_vars

Handler(r, picks) ==
  \/ Dispatch(r)
  \/ \E o \in Outcomes : CallEnds(r, o)
  \/ CheckSize(r)
  \/ Evict(r)
  \/ Store(r)
  \/ \E pick \in picks : Leave(r, pick)
  \/ Finish(r)

\* ---------------------------------------------------------- conversion
\* the bytes of an upload
Data == {"d1", "d2"}
Raw(d) == [fmt |-> "raw", of |-> d]

\* file.filename, as its characters
Filenames == { <<"f", ".", "a">>, <<"f", ".", "b", ".", "a">> }

\* a request to /tools/img-to-pdf ("img") or /tools/pdf-to-word ("pdf")
Uploads ==
  [kind : {"img", "pdf"}, filename : Filenames, data : {Raw(d) : d \in Data}]
FewUploads == {u \in Uploads : u.filename = <<"f", ".", "a">>}
ImgUploads == {u \in Uploads : u.kind = "img"}

\* faulty variant: the name is cut at its last dot
RECURSIVE before_last_dot(_)
before_last_dot(s) ==
  IF s = <<>> THEN <<>>
  ELSE IF s[Len(s)] = "." THEN SubSeq(s, 1, Len(s) - 1)
       ELSE before_last_dot(SubSeq(s, 1, Len(s) - 1))

\* file.filename.split('.')[0]
RECURSIVE before_dot(_)
before_dot(s) ==
  IF s = <<>> \/ Head(s) = "." THEN <<>>
  ELSE <<Head(s)>> \o before_dot(Tail(s))

\* lines 176 and 192
extension(kind) == IF kind = "img" THEN "pdf" ELSE "docx"

\* lines 175 and 191
input_path(filename) == <<"temp_uploads/">> \o filename

\* lines 176 and 192
output_filename(kind, filename) == before_dot(filename) \o <<".", extension(kind)>>

\* lines 177 and 193
output_path(kind, filename) == <<"temp_outputs/">> \o output_filename(kind, filename)

\* image.save / cv.convert: the document made of an input file
converted(kind, content) == [fmt |-> extension(kind), of |-> content.of]

\* open(path, "wb") and the writes that follow
write(fs, path, content) ==
  [p \in DOMAIN fs \cup {path} |-> IF p = path THEN content ELSE fs[p]]

\* where a conversion handler can raise: nowhere, in open (lines 178, 194),
\* in copyfileobj (179, 195), in Image.open or Converter (180, 196), in
\* image.save or cv.convert (183, 197), in FileResponse (184, 199)
ConvFailPoints == {"none", "open", "copy", "read", "save", "respond"}

\* str(e) of the exception raised at a point
message_of(fail) ==
  CASE fail = "open" -> "Permission denied"
    [] fail = "copy" -> "No space left on device"
    [] fail = "read" -> "cannot identify image file"
    [] fail = "save" -> "cannot write file"
    [] fail = "respond" -> "file response failed"
    [] OTHER -> ""

\* lines 178-183 and 194-198: the scratch files when the handler is left
files_after(fs, u, fail) ==
  LET in == input_path(u.filename)
      out == output_path(u.kind, u.filename)
  IN  CASE fail = "open" -> fs
        [] fail = "copy" -> write(fs, in, Partial)
        [] fail = "read" -> write(fs, in, u.data)
        [] fail = "save" -> write(write(fs, in, u.data), out, Partial)
        [] OTHER -> write(write(fs, in, u.data), out, converted(u.kind, u.data))

\* faulty variant: the client gets a generic text
on_exception_generic(msg) == [status |-> 500, detail |-> "Internal Server Error"]

\* lines 185-186 and 200-201
on_exception(msg) == [status |-> 500, detail |-> msg]

\* faulty variant: conversions are refused without a model
convert_refused_degraded(model) == model = None

\* lines 172-201 never test active_model
convert_refused(model) == FALSE

\* the handlers are coroutines without an await: they run when the event
\* loop is not inside a chat handler
loop_idle == \A r \in Reqs : pc[r] \notin InHandler

\* a POST /tools/img-to-pdf or /tools/pdf-to-word arrives
Upload(c, u) ==
  /\ phase = "serving"
  /\ conv[c].pc = "idle"
  /\ conv' = [conv EXCEPT ![c] = [NoConv EXCEPT !.pc = "queued", !.upload = u]]
  /\ UNCHANGED << startup_vars, chat_vars, files >>

\* lines 173-186 and 189-201: the whole handler; `fail` is where it raises
Convert(c, fail) ==
  /\ conv[c].pc = "queued"
  /\ loop_idle
  /\ ~convert_refused(active_model)
  /\ LET u == conv[c].upload
     IN  /\ files' = files_after(files, u, fail)
         /\ conv' = [conv EXCEPT ![c] =
              IF fail = "none"
              THEN [@ EXCEPT !.pc = "streaming", !.attempts = @ + 1,
                             !.status = 200,
                             !.path = output_path(u.kind, u.filename),
                             !.filename = output_filename(u.kind, u.filename)]
              ELSE [@ EXCEPT !.pc = "failed", !.attempts = @ + 1,
                             !.status = on_exception(message_of(fail)).status,
                             !.detail = on_exception(message_of(fail)).detail,
                             !.raised = fail]]
  /\ UNCHANGED << startup_vars, chat_vars >>

\* the FileResponse of line 184 or 199 is sent: the file at its path is
\* read when the response goes out, after the handler has returned
Stream(c) ==
  /\ conv[c].pc = "streaming"
  /\ loop_idle
  /\ conv' = [conv EXCEPT ![c].pc = "sent", ![c].body = files[conv[c].path]]
  /\ UNCHANGED << startup_vars, chat_vars, files >>

\* the response is complete
ConvDone(c) ==
  /\ conv[c].pc \in {"sent", "failed"}
  /\ conv' = [conv EXCEPT ![c] = NoConv]
  /\ UNCHANGED << startup_vars, chat_vars, files >>

Conversion(c, uploads, fails) ==
  \/ \E u \in uploads : Upload(c, u)
  \/ \E f \in fails : Convert(c, f)
  \/ Stream(c)
  \/ ConvDone(c)

\* ------------------------------------------------------- specifications
\* the chat service, started from a few provider listings
Startup ==
  /\ phase = "import"
  /\ \E l \in FewListings, f \in {"none", "configure"} : ModuleBody(l, f, Len(l))

Next ==
  \/ Startup
  \/ \E r \in Reqs, m \in Messages : Arrive(r, m)
  \/ \E r \in Reqs : Handler(r, {FALSE})

Spec == Init /\ [][Next]_vars

\* startup over every listing and failure, followed by one request at a time
StartupAny ==
  /\ phase = "import"
  /\ \E l \in Listings, f \in FailPoints, k \in 0..MaxListed : ModuleBody(l, f, k)

NextStartup ==
  \/ StartupAny
  \/ \E m \in Messages : Arrive(1, m)
  \/ Handler(1, {FALSE})

SpecStartup == Init /\ [][NextStartup]_vars

\* one request at a time, any earlier call may be the watched one
NextPairs ==
  \/ Startup
  \/ \E m \in Messages : Arrive(1, m)
  \/ Handler(1, BOOLEAN)

SpecPairs == Init /\ [][NextPairs]_vars

\* ----------------------------------------------------------- properties
Normalized(m) == strip(lower(m))
Distinct(s) == \A i, j \in 1..Len(s) : s[i] = s[j] => i = j
Begun(r) == pc[r] \in InHandler
\* request r began after the watched call returned, with an equal
\* normalized message
Repeats(r) ==
  /\ Begun(r)
  /\ began[r].watch # NoWatch
  /\ Normalized(message[r]) = began[r].watch.norm

\* C1, as stated: of two get_ai_response calls (model selected) whose
\* messages are equal after lowercasing and trimming, the second is a cache
\* hit that returns the first call's reply and does not invoke the model.
C1_AnyRepeatIsHit ==
  \A r \in Reqs :
    Repeats(r) /\ pc[r] = "done" =>
      /\ how[r] = "hit"
      /\ invoked[r] = 0
      /\ result[r].reply = began[r].watch.reply

\* C1, amended: if the first call was a cache hit or stored a model reply,
\* and that entry was not evicted before the second call began, the second
\* call is a cache hit that returns the first call's reply and does not
\* invoke the model.
C1_RepeatOfCachedIsHit ==
  \A r \in Reqs :
    Repeats(r) /\ began[r].watch.live /\ pc[r] = "done" =>
      /\ how[r] = "hit"
      /\ invoked[r] = 0
      /\ result[r].reply = began[r].watch.reply

C1_Witness ==
  \E r \in Reqs :
    /\ Repeats(r) /\ began[r].watch.live /\ pc[r] = "done"
    /\ began[r].watch.how = "stored"
    /\ ~began[r].watch.fresh
    /\ message[r] = <<" ", "A", "\t">>
    /\ result[r].reply = <<"x">>

\* C2: once capacity+1 pairwise distinct keys have been stored into the
\* cache that was empty at startup, exactly the first-stored entry is gone:
\* a request that begins then misses (invokes the model) if it asks for the
\* first message, and hits if it asks for any of the other capacity ones.
C2_FirstInsertedEvicted ==
  \A r \in Reqs :
    LET p == began[r].puts
        key == get_cache_key(message[r])
    IN  Begun(r) /\ p # Overflow /\ Len(p) = MAX_CACHE_SIZE + 1 /\ Distinct(p) =>
          /\ KeySeq(began[r].cache) = Tail(p)
          /\ key = p[1] => invoked[r] = 1
          /\ key \in Range(Tail(p)) =>
                /\ invoked[r] = 0
                /\ pc[r] = "done" =>
                     result[r].reply = dict_get(began[r].cache, key)

C2_Witness ==
  \E r \in Reqs :
    /\ pc[r] = "done"
    /\ began[r].puts # Overflow
    /\ Len(began[r].puts) = MAX_CACHE_SIZE + 1
    /\ get_cache_key(message[r]) = began[r].puts[1]
    /\ invoked[r] = 1

\* C3: response_cache holds at most one entry per normalized message and
\* at most MAX_CACHE_SIZE entries, whatever requests have been served.
C3_CacheBounded ==
  /\ Len(response_cache) <= MAX_CACHE_SIZE
  /\ Distinct(KeySeq(response_cache))
  /\ \A k \in Keys(response_cache) :
       \E m \in Messages : k = md5_hexdigest(Normalized(m))

C3_Witness ==
  \E r \in Reqs :
    /\ pc[r] = "leave" /\ how[r] = "stored"
    /\ Len(began[r].cache) = MAX_CACHE_SIZE
    /\ Len(response_cache) = MAX_CACHE_SIZE

\* C4: with no model selected every /chat call answers the fixed no-model
\* string without invoking the provider and without reading or changing
\* the cache, and the process never leaves the degraded state.
C4_Degraded ==
  /\ [](phase = "serving" /\ active_model = None =>
         /\ response_cache = <<>>
         /\ \A r \in Reqs :
              Begun(r) =>
                /\ how[r] = "degraded"
                /\ reply[r] = NO_MODEL_REPLY
                /\ invoked[r] = 0
                /\ ~looked[r]
                /\ pc[r] = "done" =>
                     result[r] = [status |-> 200, reply |-> NO_MODEL_REPLY])
  /\ [][phase = "serving" /\ active_model = None => active_model' = None]_vars

C4_Witness ==
  \E r \in Reqs :
    /\ active_model = None
    /\ pc[r] = "done"
    /\ result[r].reply = NO_MODEL_REPLY
    /\ ~looked[r]

\* C5: a model call that succeeds with empty or absent text makes
\* get_ai_response return the fixed no-answer string and leaves the cache
\* as it was, and the next call with the same normalized message invokes
\* the model again.
C5_EmptyNotCached ==
  \A r \in Reqs :
    /\ how[r] = "empty" =>
         /\ reply[r] = EMPTY_REPLY
         /\ response_cache = began[r].cache
         /\ pc[r] = "done" => result[r].reply = EMPTY_REPLY
    /\ Repeats(r) /\ began[r].watch.how = "empty" /\ began[r].watch.fresh =>
         /\ began[r].watch.reply = EMPTY_REPLY
         /\ invoked[r] = 1

C5_Witness ==
  \E r \in Reqs :
    /\ Repeats(r) /\ began[r].watch.how = "empty" /\ began[r].watch.fresh
    /\ pc[r] = "done"
    /\ how[r] = "empty"
    /\ response_cache # <<>>

\* C6: a model call that raises makes get_ai_response return the fixed
\* connection-trouble string, leaves the cache exactly as it was before the
\* request, and /chat still answers with success and a reply field.
C6_ErrorNotCached ==
  \A r \in Reqs :
    how[r] = "error" =>
      /\ reply[r] = ERROR_REPLY
      /\ response_cache = began[r].cache
      /\ pc[r] = "done" => result[r] = [status |-> 200, reply |-> ERROR_REPLY]

C6_Witness ==
  \E r \in Reqs :
    /\ how[r] = "error"
    /\ pc[r] = "done"
    /\ Len(response_cache) = MAX_CACHE_SIZE

Preferred ==
  <<"models/gemini-1.5-flash", "models/gemini-pro", "models/gemini-1.5-pro">>
Expected(available) ==
  LET present == {i \in 1..Len(Preferred) : Preferred[i] \in Range(available)}
  IN  IF present # {}
      THEN Preferred[CHOOSE i \in present : \A j \in present : i <= j]
      ELSE IF available # <<>> THEN available[1] ELSE None

\* C8: startup selects the first identifier of the priority list that is
\* among the generateContent-capable models, else the first capable model
\* in provider order, else no model.
C8_Selection ==
  phase = "serving" /\ setup_error = "none" =>
    /\ selected_model_name = Expected(available_models)
    /\ active_model = Expected(available_models)

C8_Witness ==
  /\ phase = "serving" /\ setup_error = "none"
  /\ available_models = <<"models/gemini-1.5-pro", "models/gemini-pro">>
  /\ active_model = "models/gemini-pro"

\* C9: an error raised by configure, list_models or the GenerativeModel
\* constructor leaves active_model None and startup goes on: the
\* application serves requests, in degraded mode.
C9_SetupErrorDegrades ==
  setup_error # "none" =>
    /\ phase = "serving"
    /\ active_model = None
    /\ \A r \in Reqs :
         Begun(r) =>
           /\ how[r] = "degraded"
           /\ pc[r] = "done" =>
                result[r] = [status |-> 200, reply |-> NO_MODEL_REPLY]

C9_Witness ==
  \E r \in Reqs :
    /\ setup_error = "construct"
    /\ selected_model_name = "models/gemini-pro"
    /\ pc[r] = "done"
    /\ result[r].reply = NO_MODEL_REPLY

\* C10: while two or more chat requests are in flight, however the service
\* dispatches them, response_cache never holds more than MAX_CACHE_SIZE
\* entries nor two entries with one key.
InFlight == {r \in Reqs : pc[r] # "idle"}

C10_ConcurrentBounded ==
  Cardinality(InFlight) >= 2 =>
    /\ Len(response_cache) <= MAX_CACHE_SIZE
    /\ Distinct(KeySeq(response_cache))

C10_Witness ==
  \E r, q \in Reqs :
    /\ pc[r] = "store"
    /\ Len(response_cache) = MAX_CACHE_SIZE - 1
    /\ pc[q] = "queued"
    /\ get_cache_key(message[q]) \notin Keys(response_cache) \cup {cache_key[r]}

\* C12: a cache hit leaves response_cache as it was, contents and order;
\* a store at capacity removes the oldest-inserted entry, also when that
\* entry was the one read last, and appends the new one; a hit evicts
\* nothing.
Completed(r) == pc[r] \in {"leave", "done"}

C12_HitKeepsFifo ==
  \A r \in Reqs :
    /\ how[r] = "hit" => response_cache = began[r].cache
    /\ how[r] = "stored" /\ Completed(r) =>
         response_cache =
           Append(IF Len(began[r].cache) >= MAX_CACHE_SIZE
                  THEN Tail(began[r].cache)
                  ELSE began[r].cache,
                  [k |-> get_cache_key(message[r]), v |-> reply[r]])

C12_Witness ==
  \E r \in Reqs :
    /\ pc[r] = "done" /\ how[r] = "stored"
    /\ Len(began[r].cache) = MAX_CACHE_SIZE
    /\ began[r].watch.how = "hit" /\ began[r].watch.fresh
    /\ began[r].watch.key = began[r].cache[1].k
    /\ began[r].watch.key \notin Keys(response_cache)

\* C13: a chat request invokes the model at most once: not at all in
\* degraded mode or when its key is cached, exactly once otherwise, and
\* not again after an empty reply or an exception.
C13_AtMostOneCall ==
  \A r \in Reqs :
    /\ invoked[r] <= 1
    /\ Begun(r) =>
         invoked[r] =
           IF active_model = None
                \/ get_cache_key(message[r]) \in Keys(began[r].cache)
           THEN 0 ELSE 1
    /\ how[r] \in {"empty", "error"} => invoked[r] = 1

C13_Witness ==
  \E r, q \in Reqs :
    /\ pc[r] = "done" /\ how[r] = "error" /\ invoked[r] = 1
    /\ pc[q] = "queued"

\* C18: every value in response_cache is a non-empty string and no /chat
\* request returns an empty reply, whatever text the model returns.
C18_NoEmptyReply ==
  /\ \A i \in 1..Len(response_cache) : response_cache[i].v # <<>>
  /\ \A r \in Reqs : pc[r] = "done" => result[r].reply # <<>>

\* C19: from the start of a request to its completion the cache is left
\* unchanged, grows by one entry below capacity, or has one entry replaced
\* at capacity; its size never decreases, and a full cache is full again
\* after every later request.
C19_SizeNeverDecreases ==
  \A r \in Reqs :
    Completed(r) =>
      LET b == Len(began[r].cache)
          n == Len(response_cache)
      IN  /\ n >= b
          /\ b = MAX_CACHE_SIZE => n = MAX_CACHE_SIZE
          /\ \/ response_cache = began[r].cache
             \/ b < MAX_CACHE_SIZE /\ n = b + 1
                  /\ SubSeq(response_cache, 1, b) = began[r].cache
             \/ b = MAX_CACHE_SIZE
                  /\ SubSeq(response_cache, 1, b - 1) = Tail(began[r].cache)

C19_Witness ==
  \E r \in Reqs :
    /\ pc[r] = "done" /\ how[r] = "stored"
    /\ Len(began[r].cache) = MAX_CACHE_SIZE
    /\ Len(response_cache) = MAX_CACHE_SIZE
    /\ response_cache # began[r].cache

\* concurrent requests to /tools/img-to-pdf whose conversion succeeds or
\* stops while the output file is written
NextConvert ==
  \/ Startup
  \/ \E c \in ConvIds : Conversion(c, ImgUploads, {"none", "save"})

SpecConvert == Init /\ [][NextConvert]_vars

\* chat requests for one message beside one conversion at a time
NextMixed ==
  \/ Startup
  \/ \E r \in Reqs :
       \/ Arrive(r, <<"a">>)
       \/ Dispatch(r)
       \/ \E o \in Outcomes : CallEnds(r, o)
       \/ CheckSize(r)
       \/ Store(r)
       \/ Leave(r, FALSE)
       \/ Finish(r)
  \/ Conversion(1, FewUploads, ConvFailPoints)

SpecMixed == Init /\ [][NextMixed]_vars

\* C11: a conversion handler that raises while it persists the upload,
\* converts it or builds the response answers HTTP 500 with the exception's
\* message as detail, after one attempt, and the scratch files it wrote,
\* partial ones included, are still there; a handler that does not raise
\* answers 200 after one attempt.
C11_ExceptionIs500 ==
  \A c \in ConvIds :
    LET k == conv[c]
        in == input_path(k.upload.filename)
        out == output_path(k.upload.kind, k.upload.filename)
    IN  /\ k.pc = "failed" =>
             /\ k.raised \in ConvFailPoints \ {"none"}
             /\ k.status = 500
             /\ k.detail = message_of(k.raised)
             /\ k.attempts = 1
             /\ k.raised = "copy" => in \in DOMAIN files /\ files[in] = Partial
             /\ k.raised \in {"read", "save", "respond"} =>
                  in \in DOMAIN files /\ files[in] = k.upload.data
             /\ k.raised = "save" => out \in DOMAIN files /\ files[out] = Partial
             /\ k.raised = "respond" =>
                  out \in DOMAIN files /\ files[out] = converted(k.upload.kind, k.upload.data)
        /\ k.pc \in {"streaming", "sent"} =>
             k.raised = "none" /\ k.status = 200 /\ k.attempts = 1

C11_Witness ==
  \E c \in ConvIds :
    /\ conv[c].pc = "failed"
    /\ conv[c].raised = "save"
    /\ conv[c].status = 500
    /\ conv[c].detail = "cannot write file"
    /\ files[output_path(conv[c].upload.kind, conv[c].upload.filename)] = Partial

\* the characters of a name before its first dot
FirstPart(s) ==
  LET dots == {i \in 1..Len(s) : s[i] = "."}
  IN  IF dots = {} THEN s
      ELSE SubSeq(s, 1, (CHOOSE i \in dots : \A j \in dots : i <= j) - 1)

\* C15: the scratch paths depend on the uploaded filename only: a handled
\* upload was written to temp_uploads/<filename> and its output to
\* temp_outputs/<part before the first dot>.<ext>, so that two requests in
\* flight with one filename have one output path; what is streamed back is
\* the content of that path when the response is sent.
C15_PathsByFilename ==
  /\ \A c \in ConvIds :
       LET k == conv[c]
       IN  /\ k.pc \in {"streaming", "sent"} =>
                /\ k.path = <<"temp_outputs/">> \o FirstPart(k.upload.filename)
                               \o <<".", extension(k.upload.kind)>>
                /\ k.path \in DOMAIN files
                /\ (<<"temp_uploads/">> \o k.upload.filename) \in DOMAIN files
           /\ k.pc = "streaming" => k.body = NoData
           /\ k.pc = "sent" =>
                k.body \in {Partial} \cup {converted(k.upload.kind, Raw(d)) : d \in Data}
  /\ \A c, d \in ConvIds :
       /\ conv[c].pc \in {"streaming", "sent"}
       /\ conv[d].pc \in {"streaming", "sent"}
       /\ conv[c].upload.filename = conv[d].upload.filename
       /\ conv[c].upload.kind = conv[d].upload.kind
       => conv[c].path = conv[d].path

\* two requests in flight with one filename; the first was sent the
\* document made of the second's upload
C15_Witness ==
  \E c, d \in ConvIds :
    /\ c # d
    /\ conv[c].pc = "sent"
    /\ conv[d].pc \in {"streaming", "sent"}
    /\ conv[c].upload.filename = conv[d].upload.filename
    /\ conv[c].upload.data # conv[d].upload.data
    /\ conv[c].path = conv[d].path
    /\ conv[c].body = converted(conv[d].upload.kind, conv[d].upload.data)

\* C17: a conversion request neither reads nor changes response_cache or
\* active_model: every step that changes a conversion request or a scratch
\* file leaves both alone, a queued conversion runs as soon as the event loop
\* is idle whether or not a model was selected, and it fails only where an
\* exception was raised.
C17_ConversionFrame ==
  /\ [](\A c \in ConvIds :
         /\ conv[c].pc = "queued" /\ loop_idle => ENABLED Convert(c, "none")
         /\ conv[c].pc = "failed" => conv[c].raised # "none"
         /\ conv[c].pc = "sent" /\ conv[c].body.fmt # "partial" =>
              conv[c].body = converted(conv[c].upload.kind, conv[c].upload.data))
  /\ [][(conv' # conv \/ files' # files) =>
          UNCHANGED << response_cache, active_model, selected_model_name >>]_vars

\* without a model, a conversion was answered with its document
C17_Witness ==
  /\ phase = "serving"
  /\ active_model = None
  /\ \E c \in ConvIds :
       /\ conv[c].pc = "sent"
       /\ conv[c].status = 200
       /\ conv[c].body = converted(conv[c].upload.kind, conv[c].upload.data)

\* C16: requests are dispatched independently: while a chat request is
\* inside the external model call, a waiting chat request can start, a
\* waiting conversion can run and a finished conversion can be sent.
C16_OthersProceed ==
  \A r \in Reqs :
    pc[r] = "call" =>
      /\ \A q \in Reqs \ {r} : pc[q] = "queued" => ENABLED Dispatch(q)
      /\ \A c \in ConvIds :
           /\ conv[c].pc = "queued" => ENABLED Convert(c, "none")
           /\ conv[c].pc = "streaming" => ENABLED Stream(c)

\* C14: two chat requests that both miss can be inside the unlocked
\* check-size / evict-oldest / insert sequence together: while one request
\* is between its miss and its insert, a waiting request that misses too
\* can start.
C14_MissesInterleave ==
  \A r, q \in Reqs :
    /\ r # q
    /\ pc[r] \in {"call", "size", "evict", "store"}
    /\ pc[q] = "queued"
    /\ ~no_model(active_model)
    /\ ~is_hit(response_cache, get_cache_key(message[q]))
    => ENABLED Dispatch(q)

====
